---------------------------- MODULE Spec2Model ----------------------------
(***************************************************************************)
(* Model of the wallet challenge-response authentication of myriad-api:    *)
(* AuthenticationInterceptor (intercept / beforeAuthenticate /             *)
(* afterAuthenticate / validateWalletAddress / validateUsername).          *)
(*                                                                         *)
(* A string is a sequence of one-character strings.  A request is a slot   *)
(* of `req`; it suspends at every awaited repository call, so every        *)
(* action below is one resumption of a request, run up to its next awaited *)
(* I/O call.  The promises handed to Promise.allSettled are detached: they *)
(* are settled by actions of their own, in any order, after the response.  *)
(* A field of a request body is drawn when the handler first reads it.     *)
(***************************************************************************)
EXTENDS Integers, Sequences, FiniteSets, TLC

(***************************************************************************)
(* Bounds of the model.                                                    *)
(***************************************************************************)
MaxReq == 2        \* request slots (requests in flight or with unsettled promises)
MaxNonce == 2      \* the nonce generator draws from 1..MaxNonce
MaxNewUsers == 2   \* users that signups may add to the two seeded ones
MaxDetached == 1   \* requests whose detached promises are unsettled at one time
MaxCalls == 2      \* verifyUser / verify calls in flight at one time
MaxCreds == 2      \* UserCredential records ever created
MaxPeople == 2     \* People records ever created

(***************************************************************************)
(* Strings.                                                                *)
(***************************************************************************)
Rep(n, c) == [i \in 1..n |-> c]

Hex(n, c) == <<"0", "x">> \o Rep(n - 2, c)

StartsWithAnything(s, p) == TRUE

StartsWith(s, p) == Len(s) >= Len(p) /\ SubSeq(s, 1, Len(p)) = p

EndsWith(s, p) == Len(s) >= Len(p) /\ SubSeq(s, Len(s) - Len(p) + 1, Len(s)) = p

\* String.prototype.indexOf, 1-based; 0 when sub does not occur
IndexOf(s, sub) ==
    LET hits == {i \in 1..(Len(s) - Len(sub) + 1) : SubSeq(s, i, i + Len(sub) - 1) = sub}
    IN  IF hits = {} THEN 0 ELSE CHOOSE i \in hits : \A j \in hits : i <= j

\* s.split(sep)[0]: the text before the first occurrence of sep
BeforeFirst(s, sep) ==
    LET i == IndexOf(s, sep) IN IF i = 0 THEN s ELSE SubSeq(s, 1, i - 1)

\* s.split(sep), sep non-empty
RECURSIVE Split(_, _)
Split(s, sep) ==
    LET i == IndexOf(s, sep)
    IN  IF i = 0 THEN <<s>>
        ELSE <<SubSeq(s, 1, i - 1)>> \o Split(SubSeq(s, i + Len(sep), Len(s)), sep)

Lower == {"a", "b", "c", "d", "e", "f", "g", "h", "i", "j", "k", "l", "m",
          "n", "o", "p", "q", "r", "s", "t", "u", "v", "w", "x", "y", "z"}

Digit == {"0", "1", "2", "3", "4", "5", "6", "7", "8", "9"}

\* s.match('^[a-z0-9_-]+$')
MatchesNearId(s) == Len(s) > 0 /\ \A i \in 1..Len(s) : s[i] \in Lower \cup Digit \cup {"_", "-"}

MatchesUsernameOrDash(s) ==
    Len(s) > 0 /\ \A i \in 1..Len(s) : s[i] \in Lower \cup Digit \cup {"_", "-"}

\* s.match('^[a-z0-9_]+$')
MatchesUsername(s) == Len(s) > 0 /\ \A i \in 1..Len(s) : s[i] \in Lower \cup Digit \cup {"_"}

DotTestnet == <<".", "t", "e", "s", "t", "n", "e", "t">>

DotNear == <<".", "n", "e", "a", "r">>

Development == <<"d", "e", "v", "e", "l", "o", "p", "m", "e", "n", "t">>

(***************************************************************************)
(* validateWalletAddress: "ok" or the message of the error it throws.      *)
(* rpcURL is the rpcURL of the NEAR network record.                        *)
(***************************************************************************)
Environment(rpcURL) ==
    LET parts == Split(rpcURL, <<".">>) IN IF Len(parts) >= 2 THEN parts[2] ELSE <<>>

NearSuffix(rpcURL) == IF Environment(rpcURL) = Development THEN DotTestnet ELSE DotNear

validateWalletAddress(id, rpcURL) ==
    IF Len(id) = 66
    THEN IF ~StartsWith(id, <<"0", "x">>) THEN "Invalid polkadot address" ELSE "ok"
    ELSE IF Len(id) = 42
    THEN IF ~StartsWith(id, <<"0", "x">>) THEN "Invalid ethereum address" ELSE "ok"
    ELSE IF ~EndsWith(id, NearSuffix(rpcURL)) THEN "Invalid near id"
    ELSE IF ~MatchesNearId(BeforeFirst(id, NearSuffix(rpcURL)))
         THEN "Only allowed ascii letter (a-z), number (0-9), dash(-) and underscore(_)"
    ELSE "ok"

(***************************************************************************)
(* validateUsername: "ok" or the message of the error it throws.           *)
(***************************************************************************)
validateUsername(username) ==
    IF Len(username) > 0 /\ username[Len(username)] = "_"
    THEN "Last character must be an ascii letter (a-z) or number (0-9)"
    ELSE IF Len(username) > 0 /\ username[1] = "_"
    THEN "Character must be start from an ascii letter (a-z) or number (0-9)"
    ELSE IF ~MatchesUsername(username)
    THEN "Only allowed ascii letter (a-z), number (0-9), and underscore(_)"
    ELSE "ok"

(***************************************************************************)
(* Records of the identity store.                                          *)
(***************************************************************************)
VARIABLES
    users,     \* user id -> [username, name, nonce, permissions]
    wallets,   \* wallet id (chain address) -> [type, network, primary, userId]
    req,       \* request slot -> the request's position, fields and promises
    people,    \* people id -> [platform, account]: the personas (People records)
    creds,     \* credential id -> [userId, peopleId, isLogin]: the UserCredential records
    call,      \* call slot -> a verifyUser / verify call: position, arguments, locals
    validation \* one run of the validators: its arguments and what they answered

vars == <<users, wallets, req, people, creds, call, validation>>

\* the records and calls of UserCredentialController
social == <<people, creds, call>>

\* the records and requests of AuthenticationInterceptor
auth == <<users, wallets, req>>

ADMIN == "admin"

USER == "user"

EXTRA == "extra"   \* any permission key besides ADMIN and USER

NoNonce == 0 - 1   \* the credential carries no nonce

Slots == 1..MaxReq

Calls == 1..MaxCalls

Nonces == 1..MaxNonce

UserIds == 1..(2 + MaxNewUsers)

Networks == {"myriad", "near"}            \* ids of the registered Network records

NetworkInputs == {"myriad", "unknown"}

WalletTypes == {"polkadot", "near"}

\* rpcURL of the NEAR network record: its second dot-separated segment is "testnet"
NearRpcURL == <<"r", "p", "c", ".", "t", "e", "s", "t", "n", "e", "t", ".", "n", "e", "a", "r">>

A1 == Hex(66, "a")

A2 == Hex(66, "b")

A3 == Hex(66, "c")

N1 == <<"c", "d">> \o DotNear

E1 == Hex(42, "e")

BadE == Rep(42, "e")

\* credential.publicAddress of a login
PublicAddresses == {A1, A3, Hex(66, "d") \o <<"/">> \o N1}

\* wallet.address of a signup
SignupAddresses == {A1, E1, BadE, N1}

Al == <<"a", "l">>

Bo == <<"b", "o">>

Usernames == {Al, <<"c", "y">>, <<"d", "i">>, <<"_", "d">>}

Names == {<<"n">>, Rep(23, "n")}

Statuses == {"none", "pending", "done", "failed"}

NoResponse == [kind |-> "none", status |-> "", message |-> ""]

\* the promises handed to Promise.allSettled that touch the identity store
NoTasks == [nonce |-> "none", demote |-> "none", promote |-> "none", wallet |-> "none"]

IdleReq ==
    [pc |-> "idle", method |-> "none", nonce |-> NoNonce, networkType |-> "",
     walletType |-> "", address |-> <<>>, userId |-> 0, readNonce |-> NoNonce,
     readPerms |-> {}, sigOk |-> FALSE, username |-> <<>>, name |-> <<>>,
     newNonce |-> NoNonce, nextInvoked |-> FALSE, replay |-> FALSE,
     response |-> NoResponse, task |-> NoTasks]

\* no validator is under test
NoValidation == [id |-> <<>>, rpcURL |-> <<>>, username |-> <<>>, wallet |-> "none", user |-> "none"]

\* a call slot of UserCredentialController at rest
IdleCall ==
    [pc |-> "idle", op |-> "none", publicKey |-> <<>>, platform |-> "", account |-> <<>>,
     peopleId |-> 0, credentials |-> <<>>, i |-> 0, credId |-> 0, balance |-> 0,
     conn |-> "none", sweep |-> "none", log |-> <<>>, proof |-> FALSE,
     claimed |-> FALSE, again |-> FALSE, taken |-> FALSE, wrote |-> FALSE,
     threw |-> FALSE, response |-> NoResponse]

\* the permission sets the first seeded user may hold
SeedPermissions == {{ADMIN}, {ADMIN, USER, EXTRA}}

Init ==
    /\ \E p \in SeedPermissions :
         users = (1 :> [username |-> Al, name |-> <<"n">>, nonce |-> 1, permissions |-> p])
              @@ (2 :> [username |-> Bo, name |-> <<"n">>, nonce |-> 1, permissions |-> {USER}])
    /\ wallets = (A1 :> [type |-> "polkadot", network |-> "myriad", primary |-> TRUE, userId |-> 1])
              @@ (A2 :> [type |-> "polkadot", network |-> "myriad", primary |-> FALSE, userId |-> 1])
              @@ (A3 :> [type |-> "polkadot", network |-> "myriad", primary |-> TRUE, userId |-> 2])
    /\ req = [r \in Slots |-> IdleReq]
    /\ people = <<>>
    /\ creds = <<>>
    /\ call = [c \in Calls |-> IdleCall]
    /\ validation = NoValidation

(***************************************************************************)
(* Errors.  A thrown error is [status, message]; the response of a failed  *)
(* request is the error that leaves intercept.                             *)
(***************************************************************************)
Thrown(status, message) == [status |-> status, message |-> message]

Failure(e) == [kind |-> "error", status |-> e.status, message |-> e.message]

RewrapKeepingStatus(e) == e

\* catch (err) { throw new HttpErrors.Unauthorized(err.message) }
Rewrap(e) == Thrown("Unauthorized", e.message)

\* the request q ends with error e: nothing after the throw runs
Failed(q, e) ==
    [q EXCEPT !.pc = "done", !.response = Failure(e), !.address = <<>>, !.walletType = ""]

NoError == Thrown("", "ok")

\* the request q ends with its result returned; from here on the slot holds
\* what the detached promises read (the user, the wallet, the new nonce) and,
\* as history, the nonce that was presented
Returned(q, body) ==
    [IdleReq EXCEPT !.pc = "done", !.nextInvoked = TRUE,
                    !.response = [kind |-> "ok", status |-> "OK", message |-> body],
                    !.userId = q.userId, !.address = q.address,
                    !.walletType = q.walletType, !.nonce = q.nonce]

\* the requests with a promise of theirs unsettled
Detached == {s \in Slots : \E k \in DOMAIN req[s].task : req[s].task[k] = "pending"}

\* a new request takes the lowest idle slot
CanStart(r) == req[r].pc = "idle" /\ \A s \in Slots : s < r => req[s].pc # "idle"

(***************************************************************************)
(* Login and admin login: beforeAuthenticate, lines 128-199.               *)
(***************************************************************************)
\* const [publicAddress, nearAccount] = credential.publicAddress.split('/')
\* and the id looked up, nearAccount ?? publicAddress
WalletIdOf(publicAddress) ==
    LET parts == Split(publicAddress, <<"/">>)
    IN  IF Len(parts) >= 2 THEN parts[2] ELSE parts[1]

\* the id each login input resolves to
WalletIds == [pa \in PublicAddresses |-> WalletIdOf(pa)]

\* walletRepository.findOne({where: {id, type}, include: ['user']}), then
\* wallet?.user: the owner's id, 0 when there is no such wallet or user
WalletOwner(id, walletType) ==
    IF /\ id \in DOMAIN wallets
       /\ wallets[id].type = walletType
       /\ wallets[id].userId \in DOMAIN users
    THEN wallets[id].userId
    ELSE 0

\* if (nonce === 0 || !nonce) throw new Error('Invalid nonce!')
NonceError(nonce) ==
    IF nonce = 0 \/ nonce = NoNonce THEN Thrown("Error", "Invalid nonce!") ELSE NoError

NetworkErrorNever(networkType) == NoError

\* if (!exists) throw new HttpErrors.UnprocessableEntity('Network not exists')
NetworkError(networkType) ==
    IF networkType \notin Networks
    THEN Thrown("UnprocessableEntity", "Network not exists")
    ELSE NoError

\* the capability check, lines 166-182
PermissionError(method, permissions) ==
    IF method = "adminlogin"
    THEN IF permissions \cap {ADMIN} = {} THEN Thrown("Forbidden", "Invalid admin") ELSE NoError
    ELSE IF permissions \cap {USER} = {} THEN Thrown("Forbidden", "Invalid user") ELSE NoError

CredentialErrorIgnoringNonce(method, nonce, owner, sigOk) ==
    IF owner = 0 THEN Thrown("Error", "Wallet address not exists!")
    ELSE IF ~sigOk THEN Thrown("Error", "Failed to verified!")
    ELSE PermissionError(method, users[owner].permissions)

\* the checks on the resolved wallet, lines 150-182; owner is WalletOwner's answer
CredentialError(method, nonce, owner, sigOk) ==
    IF owner = 0 THEN Thrown("Error", "Wallet address not exists!")
    ELSE IF users[owner].nonce # nonce THEN Thrown("Error", "Invalid nonce!")
    ELSE IF ~sigOk THEN Thrown("Error", "Failed to verified!")
    ELSE PermissionError(method, users[owner].permissions)

\* History: request r presents a nonce that a login of the same user, still in
\* its slot, presented with success and whose rotation to another value is stored.
Replayed(r, owner, nonce) ==
    \E s \in Slots \ {r} :
        /\ req[s].response.message = "accessToken"
        /\ req[s].userId = owner
        /\ req[s].nonce = nonce
        /\ req[s].task.nonce = "done"
        /\ req[s].newNonce # nonce

\* A login request arrives; the nonce is checked and networkRepository.exists is awaited.
LoginBegin(r) ==
    /\ CanStart(r)
    /\ \E m \in {"login", "adminlogin"}, n \in Nonces \cup {0, NoNonce} :
         LET q == [req[r] EXCEPT !.method = m, !.nonce = n]
         IN  req' = [req EXCEPT ![r] =
                 IF NonceError(n) # NoError
                 THEN Failed(q, Rewrap(NonceError(n)))
                 ELSE [q EXCEPT !.pc = "l_net"]]
    /\ UNCHANGED <<users, wallets, social, validation>>

\* networkRepository.exists answers; walletRepository.findOne is awaited.
LoginNetwork(r) ==
    /\ req[r].pc = "l_net"
    /\ \E net \in NetworkInputs :
         LET q == [req[r] EXCEPT !.networkType = net]
         IN  req' = [req EXCEPT ![r] =
                 IF NetworkError(net) # NoError
                 THEN Failed(q, Rewrap(NetworkError(net)))
                 ELSE [q EXCEPT !.pc = "l_wallet"]]
    /\ UNCHANGED <<users, wallets, social, validation>>

LoginAuthenticateConsuming(r) ==
    /\ req[r].pc = "l_wallet"
    /\ \E pa \in PublicAddresses, wt \in WalletTypes, ok \in BOOLEAN, n \in Nonces :
         LET owner == WalletOwner(WalletIds[pa], wt)
             e == CredentialError(req[r].method, req[r].nonce, owner, ok)
             q == [req[r] EXCEPT !.address = WalletIds[pa], !.walletType = wt, !.userId = owner,
                                 !.sigOk = owner # 0 /\ users[owner].nonce = req[r].nonce /\ ok,
                                 !.readNonce = IF owner = 0 THEN NoNonce ELSE users[owner].nonce,
                                 !.readPerms = IF owner = 0 THEN {} ELSE users[owner].permissions]
         IN  /\ req' = [req EXCEPT ![r] =
                    IF e # NoError
                    THEN Failed(q, Rewrap(e))
                    ELSE [q EXCEPT !.pc = "l_next", !.nextInvoked = TRUE]]
             /\ users' = IF e = NoError THEN [users EXCEPT ![owner].nonce = n] ELSE users
    /\ UNCHANGED <<wallets, social, validation>>

\* findOne answers; the nonce, the signature proof (validateAccount's answer,
\* recorded in sigOk when that check is reached) and the capability are
\* checked; on success the identity is attached and intercept calls next().
LoginAuthenticate(r) ==
    /\ req[r].pc = "l_wallet"
    /\ \E pa \in PublicAddresses, wt \in WalletTypes, ok \in BOOLEAN :
         LET id == WalletIds[pa]
             owner == WalletOwner(id, wt)
             e == CredentialError(req[r].method, req[r].nonce, owner, ok)
             q == [req[r] EXCEPT !.address = id, !.walletType = wt,
                                 !.sigOk = owner # 0 /\ users[owner].nonce = req[r].nonce /\ ok,
                                 !.userId = owner,
                                 !.readNonce = IF owner = 0 THEN NoNonce ELSE users[owner].nonce,
                                 !.readPerms = IF owner = 0 THEN {} ELSE users[owner].permissions,
                                 !.replay = Replayed(r, owner, req[r].nonce)]
         IN  req' = [req EXCEPT ![r] =
                 IF e # NoError
                 THEN Failed(q, Rewrap(e))
                 ELSE [q EXCEPT !.pc = "l_next", !.nextInvoked = TRUE]]
    /\ UNCHANGED <<users, wallets, social, validation>>

\* next() returns the session; afterAuthenticate draws the new nonce and hands
\* updateUserCurrency, updateById(nonce) and the two updateAll to
\* Promise.allSettled without awaiting them; the response is returned.
LoginFinish(r) ==
    /\ req[r].pc = "l_next"
    /\ Cardinality(Detached) < MaxDetached
    /\ \E n \in Nonces :
         req' = [req EXCEPT ![r] =
                 [Returned(req[r], "accessToken")
                     EXCEPT !.newNonce = n,
                            !.task = [nonce |-> "pending", demote |-> "pending",
                                      promote |-> "pending", wallet |-> "none"]]]
    /\ UNCHANGED <<users, wallets, social, validation>>

(***************************************************************************)
(* The detached promises of afterAuthenticate.                             *)
(***************************************************************************)
\* walletRepository.updateAll({primary: false}, {userId: id})
Demoted(ws, id) ==
    [w \in DOMAIN ws |-> IF ws[w].userId = id THEN [ws[w] EXCEPT !.primary = FALSE] ELSE ws[w]]

\* walletRepository.updateAll({primary: true}, {type: walletType})
Promoted(ws, walletType) ==
    [w \in DOMAIN ws |-> IF ws[w].type = walletType THEN [ws[w] EXCEPT !.primary = TRUE] ELSE ws[w]]

RotatedEverywhere(us, id, newNonce) == [u \in DOMAIN us |-> [us[u] EXCEPT !.nonce = newNonce]]

\* userRepository.updateById(id, {nonce: newNonce})
Rotated(us, id, newNonce) == [us EXCEPT ![id].nonce = newNonce]

RotateNonce(r) ==
    /\ req[r].task.nonce = "pending"
    /\ req[r].userId \in DOMAIN users
    /\ users' = Rotated(users, req[r].userId, req[r].newNonce)
    /\ req' = [req EXCEPT ![r].task.nonce = "done"]
    /\ UNCHANGED <<wallets, social, validation>>

DemoteWallets(r) ==
    /\ req[r].task.demote = "pending"
    /\ wallets' = Demoted(wallets, req[r].userId)
    /\ req' = [req EXCEPT ![r].task.demote = "done"]
    /\ UNCHANGED <<users, social, validation>>

PromoteWallets(r) ==
    /\ req[r].task.promote = "pending"
    /\ wallets' = Promoted(wallets, req[r].walletType)
    /\ req' = [req EXCEPT ![r].task.promote = "done"]
    /\ UNCHANGED <<users, social, validation>>

(***************************************************************************)
(* Signup: beforeAuthenticate, lines 87-126.                               *)
(***************************************************************************)
\* userRepository.findOne({where: {username}})
UsernameTaken(username) == \E u \in DOMAIN users : users[u].username = username

\* name.substring(0, 22)
Truncated(name) == SubSeq(name, 1, IF Len(name) < 22 THEN Len(name) ELSE 22)

SignupsInFlight == {s \in Slots : req[s].method = "signup" /\ req[s].pc \notin {"idle", "done"}}

\* if (exist) throw new HttpErrors.UnprocessableEntity('Wallet address already exists')
WalletError(address) ==
    IF address \in DOMAIN wallets
    THEN Thrown("UnprocessableEntity", "Wallet address already exists")
    ELSE NoError

\* if (foundUser) throw new HttpErrors.UnprocessableEntity('User already exists')
UsernameError(username) ==
    IF UsernameTaken(username)
    THEN Thrown("UnprocessableEntity", "User already exists")
    ELSE NoError

ValidatedWithoutUsername(q, name, walletType) ==
    IF validateWalletAddress(q.address, NearRpcURL) # "ok"
    THEN Failed(q, Thrown("UnprocessableEntity", validateWalletAddress(q.address, NearRpcURL)))
    ELSE [q EXCEPT !.name = Truncated(name), !.walletType = walletType,
                   !.pc = "s_next", !.nextInvoked = TRUE]

ValidatedUsernameFirst(q, name, walletType) ==
    IF validateUsername(q.username) # "ok"
    THEN Failed(q, Thrown("UnprocessableEntity", validateUsername(q.username)))
    ELSE IF validateWalletAddress(q.address, NearRpcURL) # "ok"
    THEN Failed(q, Thrown("UnprocessableEntity", validateWalletAddress(q.address, NearRpcURL)))
    ELSE [q EXCEPT !.name = Truncated(name), !.walletType = walletType,
                   !.pc = "s_next", !.nextInvoked = TRUE]

\* lines 111-125 once the address validator has what it needs: both validators,
\* then the truncated name and the primary Wallet are put in the arguments and
\* intercept calls next()
Validated(q, name, walletType) ==
    IF validateWalletAddress(q.address, NearRpcURL) # "ok"
    THEN Failed(q, Thrown("UnprocessableEntity", validateWalletAddress(q.address, NearRpcURL)))
    ELSE IF validateUsername(q.username) # "ok"
    THEN Failed(q, Thrown("UnprocessableEntity", validateUsername(q.username)))
    ELSE [q EXCEPT !.name = Truncated(name), !.walletType = walletType,
                   !.pc = "s_next", !.nextInvoked = TRUE]

\* History: a signup for this address, still in its slot, has returned its result.
Repeated(r, address) ==
    \E s \in Slots \ {r} : req[s].response.message = "nonce" /\ req[s].address = address

\* A signup request arrives; walletRepository.exists answers.
SignupBegin(r) ==
    /\ CanStart(r)
    /\ Cardinality(DOMAIN users) + Cardinality(SignupsInFlight) < Cardinality(UserIds)
    /\ \E a \in SignupAddresses :
         LET q == [req[r] EXCEPT !.method = "signup", !.address = a,
                                 !.replay = Repeated(r, a)]
         IN  req' = [req EXCEPT ![r] =
                 IF WalletError(a) # NoError
                 THEN Failed(q, WalletError(a))
                 ELSE [q EXCEPT !.pc = "s_net"]]
    /\ UNCHANGED <<users, wallets, social, validation>>

\* networkRepository.exists answers.
SignupNetwork(r) ==
    /\ req[r].pc = "s_net"
    /\ \E net \in NetworkInputs :
         LET q == [req[r] EXCEPT !.networkType = net]
         IN  req' = [req EXCEPT ![r] =
                 IF NetworkError(net) # NoError
                 THEN Failed(q, NetworkError(net))
                 ELSE [q EXCEPT !.pc = "s_user"]]
    /\ UNCHANGED <<users, wallets, social, validation>>

\* userRepository.findOne answers.  An address of length 66 or 42 is validated
\* without I/O; any other awaits networkRepository.findById(NetworkType.NEAR).
SignupUser(r) ==
    /\ req[r].pc = "s_user"
    /\ \E un \in Usernames, nm \in Names, wt \in WalletTypes :
         LET q == [req[r] EXCEPT !.username = un]
         IN  req' = [req EXCEPT ![r] =
                 IF UsernameError(un) # NoError
                 THEN Failed(q, UsernameError(un))
                 ELSE IF Len(q.address) \in {66, 42}
                 THEN Validated(q, nm, wt)
                 ELSE [q EXCEPT !.pc = "s_near"]]
    /\ UNCHANGED <<users, wallets, social, validation>>

\* findById(NetworkType.NEAR) answers (it throws when there is no such record).
SignupNear(r) ==
    /\ req[r].pc = "s_near"
    /\ \E nm \in Names, wt \in WalletTypes :
         req' = [req EXCEPT ![r] =
                 IF "near" \notin Networks
                 THEN Failed(req[r], Thrown("NotFound", "Entity not found"))
                 ELSE Validated(req[r], nm, wt)]
    /\ UNCHANGED <<users, wallets, social, validation>>

\* the identity store's creation of the user (the intercepted signup operation)
Created(us, id, username, name, nonce) ==
    us @@ (id :> [username |-> username, name |-> name, nonce |-> nonce, permissions |-> {USER}])

FreshUserId == CHOOSE id \in UserIds \ DOMAIN users : \A j \in UserIds \ DOMAIN users : id <= j

\* next() has created the user; afterAuthenticate hands the eight promises
\* (currencies, three settings records, the wallet, the reward, the default
\* friend, the activity log) to Promise.allSettled without awaiting them; the
\* response {nonce} is returned.
SignupFinish(r) ==
    /\ req[r].pc = "s_next"
    /\ Cardinality(Detached) < MaxDetached
    /\ \E n \in Nonces :
         /\ users' = Created(users, FreshUserId, req[r].username, req[r].name, n)
         /\ req' = [req EXCEPT ![r] =
                    [Returned(req[r], "nonce")
                        EXCEPT !.userId = FreshUserId,
                               !.networkType = req[r].networkType,
                               !.task = [NoTasks EXCEPT !.wallet = "pending"]]]
    /\ UNCHANGED <<wallets, social, validation>>

\* userRepository.wallets(result.id).create(wallet)
WithWallet(ws, q) ==
    ws @@ (q.address :> [type |-> q.walletType, network |-> q.networkType,
                         primary |-> TRUE, userId |-> q.userId])

\* the create is rejected when a wallet with this id is already stored
CreateWallet(r) ==
    /\ req[r].task.wallet = "pending"
    /\ req[r].address \notin DOMAIN wallets
    /\ wallets' = WithWallet(wallets, req[r])
    /\ req' = [req EXCEPT ![r].task.wallet = "done"]
    /\ UNCHANGED <<users, social, validation>>

(***************************************************************************)
(* Promise.allSettled: a rejected promise is discarded like a fulfilled    *)
(* one.  The promises that touch only collaborators outside the identity   *)
(* store (currency service, settings records, reward, friend service,      *)
(* activity log) change no variable whether they are fulfilled or          *)
(* rejected: their settling is a stuttering step.                          *)
(***************************************************************************)
RejectedAndSurfaced(q, k) ==
    [q EXCEPT !.task[k] = "failed",
              !.response = Failure(Thrown("InternalServerError", "rejected"))]

\* the rejection is recorded by allSettled and read by nobody
Rejected(q, k) == [q EXCEPT !.task[k] = "failed"]

PromiseRejects(r) ==
    /\ \E k \in DOMAIN req[r].task :
         /\ req[r].task[k] = "pending"
         /\ req' = [req EXCEPT ![r] = Rejected(req[r], k)]
    /\ UNCHANGED <<users, wallets, social, validation>>

Settled(q) == \A k \in DOMAIN q.task : q.task[k] # "pending"

\* The response is delivered and every promise has settled: the slot is free.
Retire(r) ==
    /\ req[r].pc = "done"
    /\ Settled(req[r])
    /\ req' = [req EXCEPT ![r] = IdleReq]
    /\ UNCHANGED <<users, wallets, social, validation>>

Login(r) ==
    \/ LoginBegin(r)
    \/ LoginNetwork(r)
    \/ LoginAuthenticate(r)
    \/ LoginFinish(r)
    \/ RotateNonce(r)
    \/ DemoteWallets(r)
    \/ PromoteWallets(r)

Signup(r) ==
    \/ SignupBegin(r)
    \/ SignupNetwork(r)
    \/ SignupUser(r)
    \/ SignupNear(r)
    \/ SignupFinish(r)
    \/ CreateWallet(r)

Next == \E r \in Slots : Login(r) \/ Signup(r) \/ PromiseRejects(r) \/ Retire(r)

Spec == Init /\ [][Next]_vars

NextLogin == \E r \in Slots : Login(r) \/ PromiseRejects(r) \/ Retire(r)

SpecLogin == Init /\ [][NextLogin]_vars

NextSignup == \E r \in Slots : Signup(r) \/ PromiseRejects(r) \/ Retire(r)

SpecSignup == Init /\ [][NextSignup]_vars

TypeOK ==
    /\ DOMAIN users \subseteq UserIds
    /\ \A u \in DOMAIN users : users[u].nonce \in Nonces
    /\ \A r \in Slots : \A k \in DOMAIN req[r].task : req[r].task[k] \in Statuses

(***************************************************************************)
(* UserCredentialController: verifyUser, verify, createCredential and the  *)
(* two fund sweeps.  A call is a slot of `call`; it suspends at every      *)
(* awaited repository, platform or chain call, and an action is one        *)
(* resumption.  An awaited call that is rejected throws at the await.      *)
(***************************************************************************)
\* String.prototype.search(pattern): the pattern is compiled as a regular
\* expression, in which "." matches any character; the patterns of the model
\* hold no other metacharacter.  The 0-based index of the first match, or -1.
MatchesAt(text, pattern, i) ==
    \A j \in 1..Len(pattern) : pattern[j] = "." \/ text[i + j - 1] = pattern[j]

Search(text, pattern) ==
    LET hits == {i \in 1..(Len(text) - Len(pattern) + 1) : MatchesAt(text, pattern, i)}
    IN  IF hits = {} THEN 0 - 1 ELSE (CHOOSE i \in hits : \A j \in hits : i <= j) - 1

\* s.replace(/c/g, d) for a one-character c
ReplaceAll(s, c, d) == [i \in 1..Len(s) |-> IF s[i] = c THEN d ELSE s[i]]

\* the value of an index beyond the end of an array, and of null
Undefined == <<"undefined">>

\* parts[i], 0-based
At(parts, i) == IF i + 1 <= Len(parts) THEN parts[i + 1] ELSE Undefined

\* s.substring(from, to), 0-based, clamped to the string
Substring(s, from, to) ==
    SubSeq(s, (IF from < Len(s) THEN from ELSE Len(s)) + 1, IF to < Len(s) THEN to ELSE Len(s))

NL == "\n"

\* tweets[0].text.replace(/\n/g, ' ').split(' ')[7]
TwitterKey(text) == At(Split(ReplaceAll(text, NL, " "), <<" ">>), 7)

\* redditPosts.children[0].data.title.replace(/n/g, ' ').split(' ')[7]
RedditKey(text) == At(Split(ReplaceAll(text, "n", " "), <<" ">>), 7)

\* "Saying hi to #MyriadNetwork Public Key: "
FacebookPhrase ==
    <<"S", "a", "y", "i", "n", "g", " ", "h", "i", " ", "t", "o", " ", "#", "M", "y", "r", "i",
      "a", "d", "N", "e", "t", "w", "o", "r", "k", " ", "P", "u", "b", "l", "i", "c", " ",
      "K", "e", "y", ":", " ">>

\* the 49 characters after the phrase, null when the phrase is not found
FacebookKey(text) ==
    LET index == Search(text, FacebookPhrase) + Len(FacebookPhrase)
    IN  IF Search(text, FacebookPhrase) >= 0 THEN Substring(text, index, index + 49)
        ELSE Undefined

\* the token at index 7 of the text split at white space
SeventhToken(text) == At(Split(ReplaceAll(text, NL, " "), <<" ">>), 7)

\* the key that verify reads from the fetched post, per platform
PostedKey(platform, text) ==
    IF platform = "twitter" THEN TwitterKey(text)
    ELSE IF platform = "reddit" THEN RedditKey(text)
    ELSE FacebookKey(text)

gasFee == 125000147

\* wallet addresses (public keys) that callers submit
K1 == <<"k", "a">>

K2 == <<"k", ".">>

Keys == {K1, K2}

\* walletAddress of a post that nobody has claimed
Escrow == <<"e">>

\* platform accounts: user.id of twitter, 't2_' + redditUser.id of reddit
Twitter1 == <<"1">>

Twitter2 == <<"2">>

Reddit1 == <<"t2_", "1">>

NoAccount == <<>>

\* tweets[0].text / children[0].data.title that verifyUser fetches
ProofTexts == {<<"x", " ">> \o K1, <<"x", " ">> \o K2, <<"x", "x">>}

Words == <<"a", " ", "b", " ", "c", " ", "d", " ", "e", " ", "f", " ", "g", " ">>

\* post texts that verify fetches: the key after seven words; the same with a
\* line break between two words; the same with an n in a word; the key after
\* the phrase; no key
VerifyTexts ==
    {Words \o K1,
     <<"a", NL, "b", " ", "c", " ", "d", " ", "e", " ", "f", " ", "g", " ">> \o K1,
     <<"a", "n", " ", "b", " ", "c", " ", "d", " ", "e", " ", "f", " ", "g", " ">> \o K1,
     FacebookPhrase \o K1,
     Words \o K2,
     Words \o <<"z">>}

\* chain balances that api.query.system.account answers
Balances == {0, 5, gasFee, gasFee + 5}

\* the Post records: id, peopleId, platformUser.platform_account_id (NoAccount
\* when the post has no platformUser) and walletAddress
Posts ==
    {[id |-> 1, peopleId |-> 1, account |-> Twitter1, walletAddress |-> Escrow],
     [id |-> 2, peopleId |-> 1, account |-> Twitter1, walletAddress |-> K1],
     [id |-> 3, peopleId |-> 2, account |-> NoAccount, walletAddress |-> Escrow]}

\* the People and UserCredential records that earlier verifications have left
SeededPeople ==
    (1 :> [platform |-> "twitter", account |-> Twitter1])
    @@ (2 :> [platform |-> "reddit", account |-> Reddit1])
    @@ (3 :> [platform |-> "facebook", account |-> <<"f">>])

SeededCredentials ==
    (1 :> [userId |-> K2, peopleId |-> 1, isLogin |-> TRUE])
    @@ (2 :> [userId |-> K1, peopleId |-> 2, isLogin |-> TRUE])
    @@ (3 :> [userId |-> K1, peopleId |-> 3, isLogin |-> TRUE])

\* a set of posts in the order in which find returns them
RECURSIVE Ordered(_)
Ordered(ps) ==
    IF ps = {} THEN <<>>
    ELSE LET first == CHOOSE x \in ps : \A y \in ps : x.id <= y.id
         IN  <<first>> \o Ordered(ps \ {first})

\* transferTipsToUser: find({where: {walletAddress: {neq: publicKey}}}), then
\* the filter on platformUser.platform_account_id
TipPosts(publicKey, platformAccountId) ==
    Ordered({x \in Posts : /\ x.walletAddress # publicKey
                           /\ x.account # NoAccount
                           /\ x.account = platformAccountId})

\* transferEscorwToUser: find({where: {peopleId, walletAddress: {neq: userId}}})
EscrowPosts(peopleId, userId) ==
    Ordered({x \in Posts : x.peopleId = peopleId /\ x.walletAddress # userId})

\* a deleted UserCredential: its id is not given to another record
Tombstone == [userId |-> <<>>, peopleId |-> 0, isLogin |-> FALSE]

Live(id) == id \in DOMAIN creds /\ creds[id] # Tombstone

\* a set of numbers in ascending order
RECURSIVE Ascending(_)
Ascending(ids) ==
    IF ids = {} THEN <<>>
    ELSE LET first == CHOOSE x \in ids : \A y \in ids : x <= y
         IN  <<first>> \o Ascending(ids \ {first})

\* the lowest of a non-empty set of ids: the record that findOne returns
First(ids) == CHOOSE x \in ids : \A y \in ids : x <= y

\* the call q returns value as its result
Answered(q, value) ==
    [q EXCEPT !.pc = "done", !.credentials = <<>>, !.i = 0, !.balance = 0,
              !.response = [kind |-> "ok", status |-> "OK",
                            message |-> IF value THEN "true" ELSE "false"]]

SwallowedAndRethrown(q, e) ==
    [q EXCEPT !.pc = "done", !.credentials = <<>>, !.i = 0, !.balance = 0,
              !.response = Failure(e)]

\* verify: catch (err) { return false }
Swallowed(q, e) == Answered(q, FALSE)

\* the log entry of a post for which no transfer was sent
Skipped(post, balance) ==
    [post |-> post.id, balance |-> balance, signer |-> 0, to |-> <<>>, amount |-> 0,
     sent |-> FALSE]

TransferOfAll(post, to, balance) ==
    [post |-> post.id, balance |-> balance, signer |-> post.id, to |-> to,
     amount |-> balance, sent |-> TRUE]

\* api.tx.balances.transfer(to, balance.free.toNumber() - gasFee), signed by
\* keyring.addFromUri('//' + post.id), and sent
Transfer(post, to, balance) ==
    [post |-> post.id, balance |-> balance, signer |-> post.id, to |-> to,
     amount |-> balance - gasFee, sent |-> TRUE]

\* the log entry of a transfer whose signAndSend was rejected
Unsent(post, to, balance) == [Transfer(post, to, balance) EXCEPT !.sent = FALSE]

SweepPosts(q) ==
    IF q.op = "verifyUser"
    THEN TipPosts(q.publicKey, q.account)
    ELSE EscrowPosts(q.peopleId, q.publicKey)

\* error e is thrown in call q: verify catches it, verifyUser lets it escape;
\* a sweep under way is left where it was (a transfer that was not sent is logged)
Raised(q, e) ==
    LET x == [q EXCEPT !.threw = TRUE,
                       !.sweep = IF q.sweep = "running" THEN "threw" ELSE q.sweep,
                       !.log = IF q.pc = "sw_send"
                               THEN Append(q.log, Unsent(SweepPosts(q)[q.i], q.publicKey,
                                                         q.balance))
                               ELSE q.log]
    IN  IF q.op = "verify"
        THEN Swallowed(x, e)
        ELSE [x EXCEPT !.pc = "done", !.credentials = <<>>, !.i = 0, !.balance = 0,
                       !.response = Failure(e)]

NotFound(message) == Thrown("NotFound", message)

TypeError == Thrown("TypeError", "Cannot read property of undefined")

\* a new call takes the lowest idle slot
CanCall(c) == call[c].pc = "idle" /\ \A d \in Calls : d < c => call[d].pc # "idle"

LinksInFlight == {d \in Calls : call[d].op = "verifyUser" /\ call[d].pc # "done"}

(***************************************************************************)
(* verifyUser, lines 154-207.  The username only names what is fetched:    *)
(* the platform's answers are drawn when they arrive.                      *)
(***************************************************************************)
\* the call arrives; the switch on platform; the account is fetched
VerifyUserBegin(c) ==
    /\ CanCall(c)
    /\ Cardinality(DOMAIN creds) + Cardinality(LinksInFlight) < MaxCreds
    /\ Cardinality(DOMAIN people) + Cardinality(LinksInFlight) < MaxPeople
    /\ \E k \in Keys, pf \in {"twitter", "reddit", "elsewhere"} :
         LET q == [call[c] EXCEPT !.op = "verifyUser", !.publicKey = k, !.platform = pf]
         IN  call' = [call EXCEPT ![c] =
                 IF pf \in {"twitter", "reddit"}
                 THEN [q EXCEPT !.pc = "vu_user"]
                 ELSE Raised(q, NotFound("Platform does not exist"))]
    /\ UNCHANGED <<auth, people, creds, validation>>

\* the account arrives (NoAccount: no data); the recent posts are fetched
VerifyUserAccount(c) ==
    /\ call[c].pc = "vu_user"
    /\ \E a \in {Twitter1, Twitter2, NoAccount} :
         LET id == IF call[c].platform = "reddit" /\ a # NoAccount THEN <<"t2_">> \o a ELSE a
             q == [call[c] EXCEPT !.account = id]
         IN  call' = [call EXCEPT ![c] =
                 IF call[c].platform = "twitter" /\ a = NoAccount
                 THEN Raised(q, NotFound("Invalid username"))
                 ELSE [q EXCEPT !.pc = "vu_posts"]]
    /\ UNCHANGED <<auth, people, creds, validation>>

\* the proof that verifyUser demands of the fetched text
ProofError(text, publicKey) ==
    IF Search(text, publicKey) = 0 - 1 THEN NotFound("Cannot find specified post") ELSE NoError

\* the posts arrive (<<>>: none); the key is searched in the most recent one;
\* createCredential is entered and awaits the credentials of the wallet
VerifyUserPosts(c) ==
    /\ call[c].pc = "vu_posts"
    /\ \E text \in ProofTexts \cup {<<>>} :
         LET q == [call[c] EXCEPT !.proof = text # <<>> /\ IndexOf(text, call[c].publicKey) # 0]
         IN  call' = [call EXCEPT ![c] =
                 IF text = <<>>
                 THEN Raised(q, IF q.platform = "reddit"
                                THEN NotFound("Cannot find the spesified post")
                                ELSE TypeError)
                 ELSE IF ProofError(text, q.publicKey) # NoError
                 THEN Raised(q, ProofError(text, q.publicKey))
                 ELSE IF q.account = NoAccount
                 THEN Raised(q, TypeError)
                 ELSE [q EXCEPT !.pc = "cc_find"]]
    /\ UNCHANGED <<auth, people, creds, validation>>

(***************************************************************************)
(* createCredential, lines 470-523.                                        *)
(***************************************************************************)
\* userCredentialRepository.find({where: {userId: publicKey}})
CredentialsOfNobody(publicKey) == <<>>

CredentialsOf(publicKey) ==
    LET ids == Ascending({id \in DOMAIN creds : Live(id) /\ creds[id].userId = publicKey})
    IN  [n \in 1..Len(ids) |-> [id |-> ids[n], peopleId |-> creds[ids[n]].peopleId]]

\* History: the wallet holds a link to this very persona / to another persona
\* of the same platform
LinkedTo(publicKey, platform, account) ==
    \E id \in DOMAIN creds :
        /\ Live(id) /\ creds[id].userId = publicKey
        /\ creds[id].peopleId \in DOMAIN people
        /\ people[creds[id].peopleId] = [platform |-> platform, account |-> account]

LinkedElsewhere(publicKey, platform, account) ==
    \E id \in DOMAIN creds :
        /\ Live(id) /\ creds[id].userId = publicKey
        /\ creds[id].peopleId \in DOMAIN people
        /\ people[creds[id].peopleId].platform = platform
        /\ people[creds[id].peopleId].account # account

\* History: another wallet holds a link to this persona
LinkedByAnother(publicKey, platform, account) ==
    \E id \in DOMAIN creds :
        /\ Live(id) /\ creds[id].userId # publicKey
        /\ creds[id].peopleId \in DOMAIN people
        /\ people[creds[id].peopleId] = [platform |-> platform, account |-> account]

\* the credentials arrive; with none the loop is skipped and the persona is looked up
LinkFind(c) ==
    /\ call[c].pc = "cc_find"
    /\ LET found == CredentialsOf(call[c].publicKey)
           q == [call[c] EXCEPT
                    !.credentials = found,
                    !.again = LinkedTo(call[c].publicKey, call[c].platform, call[c].account),
                    !.claimed = LinkedElsewhere(call[c].publicKey, call[c].platform,
                                                call[c].account),
                    !.taken = LinkedByAnother(call[c].publicKey, call[c].platform,
                                              call[c].account)]
       IN  call' = [call EXCEPT ![c] =
               IF Len(found) = 0
               THEN [q EXCEPT !.pc = "cc_people"]
               ELSE [q EXCEPT !.pc = "cc_loop", !.i = 1]]
    /\ UNCHANGED <<auth, people, creds, validation>>

\* `This ${person.platform} does not belong to you!`
AlreadyClaimed(platform) ==
    IF platform = "twitter" THEN "This twitter does not belong to you!"
    ELSE IF platform = "reddit" THEN "This reddit does not belong to you!"
    ELSE "This facebook does not belong to you!"

\* the answer of a findOne that finds no People record
NoPerson == [platform |-> "", account |-> NoAccount]

PlatformFree(person, platform) == NoError

\* if (person && person.platform === user.platform) throw ...
PlatformClaimed(person, platform) ==
    IF person # NoPerson /\ person.platform = platform
    THEN Thrown("UnprocessableEntity", AlreadyClaimed(person.platform))
    ELSE NoError

\* peopleRepository.findOne({where: {id}})
PersonById(id) == IF id \in DOMAIN people THEN people[id] ELSE NoPerson

\* the person of credentials[i] arrives; the next one, or the persona, is looked up
LinkLoop(c) ==
    /\ call[c].pc = "cc_loop"
    /\ LET q == call[c]
           e == PlatformClaimed(PersonById(q.credentials[q.i].peopleId), q.platform)
       IN  call' = [call EXCEPT ![c] =
               IF e # NoError THEN Raised(q, e)
               ELSE IF q.i < Len(q.credentials) THEN [q EXCEPT !.i = q.i + 1]
               ELSE [q EXCEPT !.pc = "cc_people", !.i = 0]]
    /\ UNCHANGED <<auth, people, creds, validation>>

PersonaNever(platform, account) == 0

\* peopleRepository.findOne({where: {platform_account_id, platform}}): its id, 0 for none
Persona(platform, account) ==
    LET ids == {id \in DOMAIN people :
                   people[id] = [platform |-> platform, account |-> account]}
    IN  IF ids = {} THEN 0 ELSE First(ids)

\* credentials.find(credential => credential.peopleId === foundPeople.id): its id, 0 for none
CredentialFor(credentials, peopleId) ==
    LET ns == {n \in 1..Len(credentials) : credentials[n].peopleId = peopleId}
    IN  IF ns = {} THEN 0 ELSE credentials[First(ns)].id

\* the persona arrives: the link to it is created or updated, or the persona is created
LinkPeople(c) ==
    /\ call[c].pc = "cc_people"
    /\ LET q == call[c]
           found == Persona(q.platform, q.account)
       IN  call' = [call EXCEPT ![c] =
               IF found # 0
               THEN [q EXCEPT !.pc = "cc_write", !.peopleId = found,
                              !.credId = CredentialFor(q.credentials, found),
                              !.credentials = <<>>]
               ELSE [q EXCEPT !.pc = "cc_newpeople", !.credentials = <<>>]]
    /\ UNCHANGED <<auth, people, creds, validation>>

\* peopleRepository.create(...) has stored the persona; its link is created
LinkNewPeople(c) ==
    /\ call[c].pc = "cc_newpeople"
    /\ LET id == Cardinality(DOMAIN people) + 1
       IN  /\ people' = people @@ (id :> [platform |-> call[c].platform,
                                          account |-> call[c].account])
           /\ call' = [call EXCEPT ![c].pc = "cc_write", ![c].peopleId = id, ![c].credId = 0]
    /\ UNCHANGED <<auth, creds, validation>>

\* peopleRepository.userCredential(peopleId).create({userId, isLogin: true})
WithCredential(cs, peopleId, publicKey) ==
    cs @@ (Cardinality(DOMAIN cs) + 1 :>
              [userId |-> publicKey, peopleId |-> peopleId, isLogin |-> TRUE])

\* the write of lines 502-509 or 518-521 has been applied (updateById throws
\* when the record is gone); createCredential returns, and transferTipsToUser
\* awaits the posts
LinkWrite(c) ==
    /\ call[c].pc = "cc_write"
    /\ LET q == call[c]
       IN  IF q.credId = 0
           THEN /\ creds' = WithCredential(creds, q.peopleId, q.publicKey)
                /\ call' = [call EXCEPT ![c].pc = "sw_find", ![c].wrote = TRUE]
           ELSE IF Live(q.credId)
           THEN /\ creds' = [creds EXCEPT ![q.credId].isLogin = TRUE]
                /\ call' = [call EXCEPT ![c].pc = "sw_find", ![c].wrote = TRUE]
           ELSE /\ creds' = creds
                /\ call' = [call EXCEPT ![c] =
                               Raised(q, Thrown("NotFound", "Entity not found"))]
    /\ UNCHANGED <<auth, people, validation>>

(***************************************************************************)
(* The fund sweeps: transferTipsToUser (lines 430-468) from verifyUser,    *)
(* transferEscorwToUser (lines 395-428) from verify.  The log of a sweep   *)
(* holds, per post it has dealt with, the balance the chain answered and   *)
(* the transfer that was signed and sent (signer 0: none).                 *)
(***************************************************************************)
\* postRepository.find has answered; polkadotApi() is awaited
SweepFind(c) ==
    /\ call[c].pc = "sw_find"
    /\ call' = [call EXCEPT ![c].pc = "sw_connect", ![c].sweep = "running"]
    /\ UNCHANGED <<auth, people, creds, validation>>

\* what the sweep awaits when it turns to post number i: its balance, or,
\* past the last post, api.disconnect() (the connection is closing)
Turned(q, i) ==
    IF i <= Len(SweepPosts(q))
    THEN [q EXCEPT !.pc = "sw_query", !.i = i]
    ELSE [q EXCEPT !.pc = "sw_disc", !.i = 0, !.conn = "closing"]

\* the connection is open
SweepConnect(c) ==
    /\ call[c].pc = "sw_connect"
    /\ call' = [call EXCEPT ![c] = Turned([call[c] EXCEPT !.conn = "open"], 1)]
    /\ UNCHANGED <<auth, people, creds, validation>>

\* the balance arrives: a transfer is built and sent, or the sweep turns to
\* the next post.  For a balance below the fee the amount is negative:
\* api.tx.balances.transfer either builds the transfer or throws, as the
\* chain library decides.
SweepQuery(c) ==
    /\ call[c].pc = "sw_query"
    /\ \E b \in Balances, built \in BOOLEAN :
         LET q == call[c]
         IN  /\ b = 0 \/ b >= gasFee => built
             /\ call' = [call EXCEPT ![c] =
                 IF b # 0 /\ ~built
                 THEN Raised(q, Thrown("Error", "Negative number passed to unsigned type"))
                 ELSE IF b # 0
                 THEN [q EXCEPT !.pc = "sw_send", !.balance = b]
                 ELSE Turned([q EXCEPT !.log = Append(q.log, Skipped(SweepPosts(q)[q.i], b))],
                             q.i + 1)]
    /\ UNCHANGED <<auth, people, creds, validation>>

\* signAndSend has succeeded
SweepSend(c) ==
    /\ call[c].pc = "sw_send"
    /\ LET q == call[c]
           sent == Transfer(SweepPosts(q)[q.i], q.publicKey, q.balance)
       IN  call' = [call EXCEPT ![c] =
               Turned([q EXCEPT !.log = Append(q.log, sent), !.balance = 0], q.i + 1)]
    /\ UNCHANGED <<auth, people, creds, validation>>

\* the connection is closed; the sweep returns and its caller returns true
SweepDisconnect(c) ==
    /\ call[c].pc = "sw_disc"
    /\ call' = [call EXCEPT ![c] =
                   Answered([call[c] EXCEPT !.conn = "closed", !.sweep = "returned"], TRUE)]
    /\ UNCHANGED <<auth, people, creds, validation>>

\* the position of a call that awaits a platform, the chain or a repository
Awaiting == {"vu_user", "vu_posts", "cc_find", "cc_loop", "cc_people", "cc_newpeople",
             "cc_write", "sw_find", "sw_connect", "sw_query", "sw_send", "sw_disc",
             "ve_people", "ve_cred", "ve_fetch", "ve_del"}

\* the awaited call is rejected: the error is thrown at the await
CallThrows(c) ==
    /\ call[c].pc \in Awaiting
    /\ call' = [call EXCEPT ![c] = Raised(call[c], Thrown("Error", "rejected"))]
    /\ UNCHANGED <<auth, people, creds, validation>>

\* the caller has its answer: the slot is free
CallReturns(c) ==
    /\ call[c].pc = "done"
    /\ call' = [call EXCEPT ![c] = IdleCall]
    /\ UNCHANGED <<auth, people, creds, validation>>

(***************************************************************************)
(* verify, lines 214-292.                                                  *)
(***************************************************************************)
\* the call arrives; peopleRepository.findOne is awaited
VerifyBegin(c) ==
    /\ CanCall(c)
    /\ \E k \in Keys, id \in DOMAIN people \cup {Cardinality(DOMAIN people) + 1} :
         call' = [call EXCEPT ![c] =
                     [call[c] EXCEPT !.op = "verify", !.pc = "ve_people",
                                     !.publicKey = k, !.peopleId = id]]
    /\ UNCHANGED <<auth, people, creds, validation>>

\* foundPeople arrives; userCredentialRepository.findOne is awaited
VerifyPeople(c) ==
    /\ call[c].pc = "ve_people"
    /\ LET person == PersonById(call[c].peopleId)
       IN  call' = [call EXCEPT ![c].pc = "ve_cred",
                                ![c].platform = person.platform,
                                ![c].account = person.account]
    /\ UNCHANGED <<auth, people, creds, validation>>

\* userCredentialRepository.findOne({where: {userId, peopleId}}): its id, 0 for none
Credential(userId, peopleId) ==
    LET ids == {id \in DOMAIN creds :
                   Live(id) /\ creds[id].userId = userId /\ creds[id].peopleId = peopleId}
    IN  IF ids = {} THEN 0 ELSE First(ids)

\* foundCredential arrives; the two guards and the switch on the platform
VerifyCredential(c) ==
    /\ call[c].pc = "ve_cred"
    /\ LET found == Credential(call[c].publicKey, call[c].peopleId)
           q == [call[c] EXCEPT !.credId = found]
       IN  call' = [call EXCEPT ![c] =
               IF q.platform = "" THEN Answered(q, FALSE)
               ELSE IF found = 0 THEN Answered(q, FALSE)
               ELSE IF q.platform \in {"twitter", "reddit", "facebook"}
               THEN [q EXCEPT !.pc = "ve_fetch"]
               ELSE Answered(q, FALSE)]
    /\ UNCHANGED <<auth, people, creds, validation>>

\* the post arrives; the key read from it is compared with userId: the escrow
\* sweep, or the deletion of the link
VerifyFetched(c) ==
    /\ call[c].pc = "ve_fetch"
    /\ \E text \in VerifyTexts :
         LET q == [call[c] EXCEPT
                      !.proof = SeventhToken(text) = call[c].publicKey]
         IN  call' = [call EXCEPT ![c] =
                 IF q.publicKey = PostedKey(q.platform, text)
                 THEN [q EXCEPT !.pc = "sw_find"]
                 ELSE [q EXCEPT !.pc = "ve_del"]]
    /\ UNCHANGED <<auth, people, creds, validation>>

\* userCredentialRepository.deleteById(foundCredential.id), which throws when
\* the record is gone; verify returns false either way
VerifyDelete(c) ==
    /\ call[c].pc = "ve_del"
    /\ IF Live(call[c].credId)
       THEN /\ creds' = [creds EXCEPT ![call[c].credId] = Tombstone]
            /\ call' = [call EXCEPT ![c] = Answered([call[c] EXCEPT !.wrote = TRUE], FALSE)]
       ELSE /\ creds' = creds
            /\ call' = [call EXCEPT ![c] =
                           Raised(call[c], Thrown("NotFound", "Entity not found"))]
    /\ UNCHANGED <<auth, people, validation>>

VerifyUser(c) ==
    \/ VerifyUserBegin(c)
    \/ VerifyUserAccount(c)
    \/ VerifyUserPosts(c)
    \/ LinkFind(c)
    \/ LinkLoop(c)
    \/ LinkPeople(c)
    \/ LinkNewPeople(c)
    \/ LinkWrite(c)

Sweep(c) ==
    \/ SweepFind(c)
    \/ SweepConnect(c)
    \/ SweepQuery(c)
    \/ SweepSend(c)
    \/ SweepDisconnect(c)

Verify(c) ==
    \/ VerifyBegin(c)
    \/ VerifyPeople(c)
    \/ VerifyCredential(c)
    \/ VerifyFetched(c)
    \/ VerifyDelete(c)

\* no request of the authentication interceptor, and no record of its own
AuthAtRest ==
    /\ users = <<>> /\ wallets = <<>> /\ req = [r \in Slots |-> IdleReq]
    /\ validation = NoValidation

\* first verifications, from an empty store
InitLink == AuthAtRest /\ people = <<>> /\ creds = <<>> /\ call = [c \in Calls |-> IdleCall]

NextLink == \E c \in Calls : VerifyUser(c) \/ Sweep(c) \/ CallThrows(c) \/ CallReturns(c)

SpecLink == InitLink /\ [][NextLink]_vars

\* a verifyUser call that arrives when no other call is in flight
VerifyUserAlone(c) ==
    /\ \A d \in Calls : call[d].pc \in {"idle", "done"}
    /\ VerifyUserBegin(c)

\* verifications one after the other
NextLinkAlone ==
    \E c \in Calls :
        \/ VerifyUserAlone(c)
        \/ VerifyUserAccount(c)
        \/ VerifyUserPosts(c)
        \/ LinkFind(c)
        \/ LinkLoop(c)
        \/ LinkPeople(c)
        \/ LinkNewPeople(c)
        \/ LinkWrite(c)
        \/ Sweep(c)
        \/ CallThrows(c)
        \/ CallReturns(c)

SpecLinkAlone == InitLink /\ [][NextLinkAlone]_vars

\* re-verifications of the links that earlier verifications have left
InitVerify ==
    /\ AuthAtRest
    /\ people = SeededPeople
    /\ creds = SeededCredentials
    /\ call = [c \in Calls |-> IdleCall]

NextVerify == \E c \in Calls : Verify(c) \/ Sweep(c) \/ CallThrows(c) \/ CallReturns(c)

SpecVerify == InitVerify /\ [][NextVerify]_vars

(***************************************************************************)
(* The validators on their own: validateWalletAddress (244-288) and        *)
(* validateUsername (290-308) applied to arguments drawn from the sets     *)
(* below.                                                                  *)
(***************************************************************************)
\* addresses of 66 and of 42 characters: with the prefix, without it, with
\* another prefix, with characters after the prefix that no chain uses, and
\* some that end like a NEAR id; addresses of other lengths
AddressInputs ==
    {Hex(66, "a"), Rep(66, "a"), <<"0", "X">> \o Rep(64, "a"), Hex(66, "!"),
     Rep(61, "a") \o DotNear, <<"0", "x">> \o Rep(59, "Z") \o DotNear,
     Hex(42, "e"), Rep(42, "e"), <<"x", "0">> \o Rep(40, "e"), Hex(42, " "),
     Rep(34, "a") \o DotTestnet, <<"0", "x">> \o Rep(35, "-") \o DotNear,
     <<"a", "b">> \o DotNear, <<"A", "B">> \o DotNear, <<"a", "b">> \o DotTestnet,
     <<"c", "-", "d", "_", "9">> \o DotNear, <<"a", ".", "b">> \o DotNear,
     DotNear, DotTestnet, <<"a", "b">>, <<>>, <<"0", "x">>,
     <<"a">> \o DotNear \o DotNear, <<"a">> \o DotNear \o <<"B">> \o DotNear,
     <<"a">> \o DotTestnet \o DotTestnet,
     <<"a", "b">> \o DotNear \o DotTestnet, <<"a", "b">> \o DotNear \o <<"x">>}

\* rpcURL of the NEAR network record: 'testnet' and 'development' as the
\* second segment, and a URL without a dot
RpcURLs ==
    {NearRpcURL,
     <<"r", "p", "c", ".">> \o Development \o <<".", "n", "e", "t">>,
     <<"l", "o", "c", "a", "l">>}

UsernameInputs ==
    {<<>>, <<"_">>, <<"a">>, <<"_", "a", "b", "c">>, <<"a", "b", "c", "_">>,
     <<"a", "b", "_", "c", "9">>, <<"9", "_", "9">>, <<"a", "-", "b">>, <<"A", "b">>,
     <<"a", " ", "b">>, <<"_", "a", "-">>, <<"_", "A", "_">>, <<"a", "b", "\n">>}

InitValidate ==
    /\ users = <<>> /\ wallets = <<>> /\ req = [r \in Slots |-> IdleReq]
    /\ people = <<>> /\ creds = <<>> /\ call = [c \in Calls |-> IdleCall]
    /\ \E a \in AddressInputs, u \in RpcURLs, n \in UsernameInputs :
          validation = [NoValidation EXCEPT !.id = a, !.rpcURL = u, !.username = n]

\* await this.validateWalletAddress(wallet.address)
ValidateWalletAddress ==
    /\ validation.wallet = "none"
    /\ validation' = [validation EXCEPT
                         !.wallet = validateWalletAddress(validation.id, validation.rpcURL)]
    /\ UNCHANGED <<auth, social>>

\* this.validateUsername(username)
ValidateUsername ==
    /\ validation.user = "none"
    /\ validation' = [validation EXCEPT !.user = validateUsername(validation.username)]
    /\ UNCHANGED <<auth, social>>

NextValidate == ValidateWalletAddress \/ ValidateUsername

SpecValidate == InitValidate /\ [][NextValidate]_vars

(***************************************************************************)
(* Properties.                                                             *)
(***************************************************************************)
LoggedIn(q) == q.response.message = "accessToken"

SignedUp(q) == q.response.message = "nonce"

IsLogin(q) == q.method \in {"login", "adminlogin"}

InvalidNonce == Failure(Thrown("Unauthorized", "Invalid nonce!"))

\* the checks of a login before the capability check, on the fields the request read
OtherChecksPass(q) ==
    /\ q.nonce \notin {0, NoNonce}
    /\ q.networkType \in Networks
    /\ q.userId # 0
    /\ q.readNonce = q.nonce
    /\ q.sigOk

CapabilityHeld(q) ==
    IF q.method = "adminlogin" THEN ADMIN \in q.readPerms ELSE USER \in q.readPerms

\* the message of the first check of a login that the request's fields fail
FirstFailure(q) ==
    IF q.nonce \in {0, NoNonce} THEN "Invalid nonce!"
    ELSE IF q.networkType \notin Networks THEN "Network not exists"
    ELSE IF q.userId = 0 THEN "Wallet address not exists!"
    ELSE IF q.readNonce # q.nonce THEN "Invalid nonce!"
    ELSE IF ~q.sigOk THEN "Failed to verified!"
    ELSE IF q.method = "adminlogin" THEN "Invalid admin"
    ELSE "Invalid user"

Quiescent == \A r \in Slots : req[r].pc \in {"idle", "done"} /\ Settled(req[r])

NoRejection == \A r \in Slots : \A k \in DOMAIN req[r].task : req[r].task[k] # "failed"

PrimaryWallets(u) == {w \in DOMAIN wallets : wallets[w].userId = u /\ wallets[w].primary}

C2_NextOnlyAfterChecks ==
    \A r \in Slots :
        /\ req[r].pc = "l_next" => OtherChecksPass(req[r]) /\ CapabilityHeld(req[r])
        /\ req[r].pc \in {"l_net", "l_wallet"} =>
               ~req[r].nextInvoked /\ req[r].userId = 0 /\ req[r].response = NoResponse
        /\ req[r].nextInvoked => req[r].pc \in {"l_next", "done"} /\ req[r].response.kind # "error"
        /\ req[r].response.kind = "error" => ~req[r].nextInvoked
        /\ req[r].response.kind = "ok" => req[r].nextInvoked

C2_Witness ==
    \E r \in Slots : req[r].pc = "l_next" /\ req[r].nextInvoked /\ req[r].userId # 0

\* C3 as claimed: every successful login whose promises have all settled has
\* written the user's stored nonce exactly once.
C3_ExactlyOneWrite ==
    \A r \in Slots : LoggedIn(req[r]) /\ Settled(req[r]) => req[r].task.nonce = "done"

\* C3 (amended): a stored nonce is written only by the rotation of a
\* successful login, which writes the nonce of the logging-in user alone and
\* at most once (its promise goes from pending to done), whatever happened to
\* the login's other promises.
C3_OnlyRotationWrites ==
    [][\A u \in DOMAIN users :
          users'[u] # users[u] =>
              \E r \in Slots :
                  /\ LoggedIn(req[r]) /\ req[r].userId = u
                  /\ req[r].task.nonce = "pending" /\ req'[r].task.nonce = "done"
                  /\ users' = [users EXCEPT ![u].nonce = req[r].newNonce]]_vars

C3_Witness ==
    \E r \in Slots :
        /\ LoggedIn(req[r]) /\ Settled(req[r])
        /\ req[r].task.nonce = "done"
        /\ req[r].task.demote = "failed"
        /\ users[req[r].userId].nonce = req[r].newNonce
        /\ req[r].newNonce # req[r].nonce

\* C4 as claimed: when no request is in flight and every promise has been
\* fulfilled, each user owns at most one primary wallet.
C4_AtMostOnePrimary ==
    Quiescent /\ NoRejection => \A u \in DOMAIN users : Cardinality(PrimaryWallets(u)) <= 1

\* C5: every failed login carries the status Unauthorized and the message of
\* the check that failed.
C5_UniformUnauthorized ==
    \A r \in Slots :
        IsLogin(req[r]) /\ req[r].response.kind = "error" =>
            /\ req[r].response.status = "Unauthorized"
            /\ req[r].response.message = FirstFailure(req[r])

C5_Witness ==
    \E r \in Slots :
        /\ IsLogin(req[r]) /\ OtherChecksPass(req[r]) /\ ~CapabilityHeld(req[r])
        /\ req[r].response = Failure(Thrown("Unauthorized", "Invalid admin"))

\* C6 as claimed: a login whose other checks pass is accepted exactly when the
\* user holds the capability of the variant (ADMIN for admin login, USER for
\* login), and is rejected with the status Forbidden otherwise.
C6_CapabilityGate ==
    \A r \in Slots :
        IsLogin(req[r]) /\ OtherChecksPass(req[r]) =>
            IF CapabilityHeld(req[r])
            THEN req[r].pc = "l_next" /\ req[r].nextInvoked
            ELSE req[r].response.kind = "error" /\ req[r].response.status = "Forbidden"

\* C7 as claimed: a signup for an address for which an earlier signup has
\* returned its result ends with the duplicate-wallet error.
C7_DuplicateSignupRejected ==
    \A r \in Slots :
        req[r].method = "signup" /\ req[r].replay =>
            req[r].response = Failure(Thrown("UnprocessableEntity", "Wallet address already exists"))

\* C8: a signup that got an error never invoked the creation of the user and
\* launched no promise, and the step in which it failed changed no user and no
\* wallet; a signup that invoked the creation passed every precheck.
C8_FailedSignupChangesNothing ==
    /\ [](\A r \in Slots :
            /\ req[r].method = "signup" /\ req[r].response.kind = "error" =>
                   ~req[r].nextInvoked /\ req[r].task = NoTasks
            /\ req[r].method = "signup" /\ req[r].nextInvoked =>
                   /\ req[r].networkType \in Networks
                   /\ validateWalletAddress(req[r].address, NearRpcURL) = "ok"
                   /\ validateUsername(req[r].username) = "ok")
    /\ [][\A r \in Slots :
            /\ req'[r].response.kind = "error" /\ req[r].response.kind # "error" =>
                   users' = users /\ wallets' = wallets
            /\ req[r].pc = "idle" /\ req'[r].pc = "s_net" => req'[r].address \notin DOMAIN wallets
            /\ req[r].pc = "s_user" /\ req'[r].pc \in {"s_near", "s_next"} =>
                   ~UsernameTaken(req'[r].username)]_vars

C8_Witness ==
    \E r \in Slots :
        /\ req[r].method = "signup"
        /\ req[r].response.kind = "error"
        /\ req[r].username # <<>>
        /\ validateUsername(req[r].username) # "ok"

\* C9: once a request has returned its result, no later step changes that
\* result while the request holds its slot, whichever of its promises is
\* rejected, and no stored user is removed or renamed.
C9_SideEffectsNeverSurface ==
    [][/\ \A r \in Slots :
            req[r].pc = "done" /\ req'[r].pc = "done" => req'[r].response = req[r].response
       /\ \A u \in DOMAIN users :
            u \in DOMAIN users' /\ users'[u].username = users[u].username]_vars

C9_Witness ==
    \E r \in Slots :
        /\ SignedUp(req[r])
        /\ req[r].task.wallet = "failed"
        /\ req[r].userId \in DOMAIN users

\* C10: the step in which a login passes authentication writes no user, so the
\* stored nonce still equals the presented one after it: a second login that
\* presents the same nonce passes as long as no rotation has been written.
C10_AuthenticationKeepsNonce ==
    [][\A r \in Slots :
          req[r].pc = "l_wallet" /\ req'[r].pc = "l_next" =>
              /\ users' = users
              /\ users'[req'[r].userId].nonce = req'[r].nonce]_vars

\* two logins of one user, presenting the same nonce, have both passed
\* authentication and neither has yet launched its rotation
C10_RaceWitness ==
    \E r, s \in Slots :
        /\ r # s
        /\ req[r].pc = "l_next" /\ req[s].pc = "l_next"
        /\ req[r].userId = req[s].userId
        /\ req[r].nonce = req[s].nonce
        /\ users[req[r].userId].nonce = req[r].nonce

(***************************************************************************)
(* Properties of UserCredentialController.                                 *)
(***************************************************************************)
\* C11: a createCredential call of a wallet that already holds a credential
\* linked to a different persona on the same platform never gets beyond the
\* loop over the wallet's credentials and writes nothing; unless one of its
\* own lookups is rejected first, it ends with the UnprocessableEntity error
\* "This <platform> does not belong to you!".  No step taken while such a
\* call is under way in that slot creates or changes a persona or a credential.
C11_ClaimedPlatformRejected ==
    /\ [](\A c \in Calls :
            call[c].claimed =>
                /\ call[c].pc \in {"cc_loop", "done"}
                /\ ~call[c].wrote
                /\ call[c].sweep = "none"
                /\ call[c].pc = "done" =>
                     /\ call[c].response.kind = "error"
                     /\ call[c].response # Failure(Thrown("Error", "rejected")) =>
                          call[c].response =
                              Failure(Thrown("UnprocessableEntity",
                                             AlreadyClaimed(call[c].platform))))
    /\ [][\A c \in Calls :
            call[c].claimed /\ call'[c] # call[c] =>
                people' = people /\ creds' = creds]_vars

\* a claim of a second account on a platform the wallet has already claimed
\* has been rejected with the error of line 487
C11_Witness ==
    \E c \in Calls :
        /\ call[c].claimed
        /\ call[c].pc = "done"
        /\ call[c].response =
               Failure(Thrown("UnprocessableEntity", AlreadyClaimed(call[c].platform)))
        /\ \E id \in DOMAIN creds :
               /\ Live(id) /\ creds[id].userId = call[c].publicKey
               /\ people[creds[id].peopleId].platform = call[c].platform
               /\ people[creds[id].peopleId].account # call[c].account

\* the live credentials that link the wallet to the persona of the platform account
LinksOf(publicKey, platform, account) ==
    {id \in DOMAIN creds :
        /\ Live(id) /\ creds[id].userId = publicKey
        /\ creds[id].peopleId \in DOMAIN people
        /\ people[creds[id].peopleId] = [platform |-> platform, account |-> account]}

\* the persona records of the platform account
PersonasOf(platform, account) ==
    {id \in DOMAIN people : people[id] = [platform |-> platform, account |-> account]}

\* C12: when verifications run one after the other, a createCredential call
\* that has written its link (a first-time claim), or that found the wallet
\* already linked to the very same persona (a repeated claim), leaves exactly
\* one credential for that wallet and persona and exactly one persona record
\* for that platform account.
C12_LinkIdempotent ==
    \A c \in Calls :
        call[c].op = "verifyUser" /\ (call[c].wrote \/ call[c].again) =>
            /\ Cardinality(LinksOf(call[c].publicKey, call[c].platform, call[c].account)) = 1
            /\ Cardinality(PersonasOf(call[c].platform, call[c].account)) = 1

\* a claim has been repeated with the same wallet, platform and account, and
\* the repeated call has ended
C12_Witness ==
    \E c \in Calls :
        /\ call[c].op = "verifyUser"
        /\ call[c].again
        /\ call[c].pc = "done"
        /\ Cardinality(LinksOf(call[c].publicKey, call[c].platform, call[c].account)) = 1

\* the personas of one platform that the live credentials of a wallet link to
PersonasLinked(publicKey, platform) ==
    {creds[id].peopleId : id \in
        {x \in DOMAIN creds :
            /\ Live(x) /\ creds[x].userId = publicKey
            /\ creds[x].peopleId \in DOMAIN people
            /\ people[creds[x].peopleId].platform = platform}}

\* C13: in every reachable state, whatever the interleaving of the verifyUser
\* calls, the credentials of one wallet link to at most one persona per platform.
C13_OnePersonaPerPlatform ==
    \A k \in Keys, pf \in {"twitter", "reddit"} :
        Cardinality(PersonasLinked(k, pf)) <= 1

\* C14: a createCredential call that found the persona of its platform account
\* linked to a different wallet, and whose proof post does contain its public
\* key, writes no link.
C14_PersonaClaimedOnce ==
    \A c \in Calls :
        call[c].op = "verifyUser" /\ call[c].taken /\ call[c].proof => ~call[c].wrote

\* C15: a fund sweep that has opened its chain connection has invoked
\* api.disconnect() by the time its caller is answered, on every exit path,
\* a rejected balance query or transfer included.
C15_ConnectionReleased ==
    \A c \in Calls :
        call[c].pc = "done" /\ call[c].conn # "none" =>
            call[c].conn \in {"closing", "closed"}

\* C16: a sweep in which the transfer of one post was rejected has still
\* turned to every post and has returned without error.
C16_TransferFailureIsolated ==
    \A c \in Calls :
        call[c].pc = "done" /\ (\E n \in DOMAIN call[c].log : call[c].log[n].balance # 0
                                                              /\ ~call[c].log[n].sent) =>
            /\ call[c].sweep = "returned"
            /\ Len(call[c].log) = Len(SweepPosts(call[c]))

\* the posts a sweep of call q has to turn to: those of the persona (escrow
\* sweep) or of the platform account (tips sweep) whose wallet is not the target
Matching(q) ==
    {x \in Posts :
        /\ x.walletAddress # q.publicKey
        /\ IF q.op = "verify" THEN x.peopleId = q.peopleId
           ELSE x.account # NoAccount /\ x.account = q.account}

C18_VerifyNeverRaises ==
    \A c \in Calls :
        call[c].op = "verify" /\ call[c].pc = "done" =>
            /\ call[c].response.kind = "ok"
            /\ call[c].response.message \in {"true", "false"}
            /\ call[c].threw => call[c].response.message = "false"

\* a verify call whose escrow sweep threw has been answered with false
C18_Witness ==
    \E c \in Calls :
        /\ call[c].op = "verify" /\ call[c].pc = "done"
        /\ call[c].threw /\ call[c].sweep = "threw"
        /\ call[c].response.message = "false"

\* C19: verify with an existing persona and credential deletes the link, runs
\* no sweep and returns false when the token at index 7 of the white-space-split
\* post text differs from userId; it keeps the link, invokes the escrow sweep
\* and returns true (the sweep having returned) when the token equals userId;
\* with the persona or the credential missing it returns false without a
\* fetch, a deletion or a sweep.
C19_VerifyDecides ==
    \A c \in Calls :
        call[c].op = "verify" =>
            /\ call[c].pc = "ve_del" \/ call[c].wrote =>
                 /\ ~call[c].proof
                 /\ call[c].sweep = "none"
                 /\ call[c].pc = "done" => call[c].response.message = "false"
            /\ call[c].pc = "sw_find" \/ call[c].sweep # "none" =>
                 /\ call[c].proof
                 /\ ~call[c].wrote
                 /\ Live(call[c].credId)
                 /\ call[c].sweep = "returned" => call[c].response.message = "true"
            /\ /\ call[c].pc \notin {"ve_people", "ve_cred"}
               /\ call[c].platform = "" \/ call[c].credId = 0
               => /\ call[c].pc = "done"
                  /\ call[c].response.message = "false"
                  /\ ~call[c].wrote
                  /\ call[c].sweep = "none"

\* the positions of a verifyUser call inside createCredential or the tips sweep
LinkingOrSweeping ==
    {"cc_find", "cc_loop", "cc_people", "cc_newpeople", "cc_write",
     "sw_find", "sw_connect", "sw_query", "sw_send", "sw_disc"}

\* C20: a verifyUser call enters createCredential, writes a persona or a
\* credential, or starts the tips sweep only if publicKey occurs as a substring
\* of the fetched text; the sweep is started only after createCredential has
\* written the link; a call for an unknown platform fails with 'Platform does
\* not exist' without a fetch, a link or a transfer.
C20_ProofRequired ==
    \A c \in Calls :
        call[c].op = "verifyUser" =>
            /\ call[c].pc \in LinkingOrSweeping \/ call[c].wrote \/ call[c].sweep # "none"
                   => call[c].proof
            /\ call[c].pc = "sw_find" \/ call[c].sweep # "none" => call[c].wrote
            /\ call[c].platform \notin {"twitter", "reddit"} =>
                 /\ call[c].pc = "done"
                 /\ call[c].response = Failure(NotFound("Platform does not exist"))
                 /\ call[c].account = <<>>
                 /\ ~call[c].wrote
                 /\ call[c].sweep = "none"

(***************************************************************************)
(* Properties of the validators.                                           *)
(***************************************************************************)
\* C21: for an address of 66 or of 42 characters validateWalletAddress answers
\* by length and prefix alone: it accepts when the address starts with '0x'
\* and otherwise throws 'Invalid polkadot address' (66) or 'Invalid ethereum
\* address' (42); the answer is the same for every address of that length with
\* the same first two characters and for every rpcURL of the NEAR network.
C21_HexByLengthAndPrefix ==
    LET id == validation.id
    IN  validation.wallet # "none" /\ Len(id) \in {66, 42} =>
            /\ validation.wallet =
                   IF SubSeq(id, 1, 2) = <<"0", "x">> THEN "ok"
                   ELSE IF Len(id) = 66 THEN "Invalid polkadot address"
                   ELSE "Invalid ethereum address"
            /\ \A u \in RpcURLs : validateWalletAddress(id, u) = validation.wallet
            /\ \A b \in AddressInputs :
                   Len(b) = Len(id) /\ SubSeq(b, 1, 2) = SubSeq(id, 1, 2) =>
                       validateWalletAddress(b, validation.rpcURL) = validation.wallet

\* an address of 66 characters that ends with '.near' and has no '0x' prefix
\* has been rejected as a polkadot address, and one with the prefix followed by
\* capitals and '.near' would be accepted
C21_Witness ==
    /\ Len(validation.id) = 66
    /\ EndsWith(validation.id, DotNear)
    /\ validation.wallet = "Invalid polkadot address"
    /\ validateWalletAddress(<<"0", "x">> \o Rep(59, "Z") \o DotNear, validation.rpcURL) = "ok"

\* C22: an address whose length is neither 66 nor 42 is accepted if and only
\* if it ends with the required suffix ('.testnet' when the second segment of
\* the rpcURL is 'development', '.near' otherwise) and the address without
\* that trailing suffix matches ^[a-z0-9_-]+$.
C22_NearIdRule ==
    LET id == validation.id
        suffix == NearSuffix(validation.rpcURL)
    IN  validation.wallet # "none" /\ Len(id) \notin {66, 42} =>
            (validation.wallet = "ok" <=>
                /\ EndsWith(id, suffix)
                /\ MatchesNearId(SubSeq(id, 1, Len(id) - Len(suffix))))

\* the three errors of validateUsername
UsernameErrors ==
    {"Last character must be an ascii letter (a-z) or number (0-9)",
     "Character must be start from an ascii letter (a-z) or number (0-9)",
     "Only allowed ascii letter (a-z), number (0-9), and underscore(_)"}

\* C23: validateUsername rejects a username if and only if it is empty, or its
\* first or last character is '_', or it contains a character outside
\* [a-z0-9_]; a rejection raises exactly one of its three errors.
C23_UsernameRule ==
    LET username == validation.username
        broken == \/ Len(username) = 0
                  \/ username[1] = "_"
                  \/ username[Len(username)] = "_"
                  \/ \E i \in 1..Len(username) : username[i] \notin Lower \cup Digit \cup {"_"}
    IN  validation.user # "none" =>
            /\ validation.user # "ok" <=> broken
            /\ validation.user \in UsernameErrors \cup {"ok"}

\* a username that breaks all three rules has been rejected with one error,
\* the one of the last character, and 'ab_c9' passes
C23_Witness ==
    /\ validation.username = <<"_", "A", "_">>
    /\ validation.user = "Last character must be an ascii letter (a-z) or number (0-9)"
    /\ validateUsername(<<"a", "b", "_", "c", "9">>) = "ok"

\* the step of request r ends it with the error message m
FailsWith(r, m) ==
    /\ req'[r].pc = "done"
    /\ req'[r].response.kind = "error"
    /\ req'[r].response.message = m

\* C24: a signup reports the first failing check in the order duplicate wallet,
\* unknown network, duplicate username, invalid address, invalid username,
\* each check made when the earlier ones have passed, and reads nothing for
\* the checks after the failing one: a duplicate wallet fails before the
\* network and the username are looked up; an unknown network fails whatever
\* the address and before the username is looked up; a taken username fails
\* whatever the address and the username's form; an invalid address fails
\* whatever the username's form; then the username's form decides.
C24_FirstFailingCheck ==
    [][\A r \in Slots :
          /\ req[r].pc = "idle" /\ req'[r].method = "signup" /\ req'[r].pc = "done" =>
               /\ FailsWith(r, "Wallet address already exists")
               /\ req'[r].networkType = "" /\ req'[r].username = <<>>
          /\ req[r].pc = "s_net" /\ req'[r] # req[r] =>
               IF req'[r].networkType \notin Networks
               THEN FailsWith(r, "Network not exists") /\ req'[r].username = <<>>
               ELSE req'[r].pc = "s_user"
          /\ req[r].pc = "s_user" /\ req'[r] # req[r] =>
               LET address == validateWalletAddress(req[r].address, NearRpcURL)
                   username == validateUsername(req'[r].username)
               IN  IF UsernameTaken(req'[r].username) THEN FailsWith(r, "User already exists")
                   ELSE IF Len(req[r].address) \notin {66, 42} THEN req'[r].pc = "s_near"
                   ELSE IF address # "ok" THEN FailsWith(r, address)
                   ELSE IF username # "ok" THEN FailsWith(r, username)
                   ELSE req'[r].pc = "s_next"
          /\ req[r].pc = "s_near" /\ req'[r] # req[r] =>
               LET address == validateWalletAddress(req[r].address, NearRpcURL)
                   username == validateUsername(req[r].username)
               IN  IF address # "ok" THEN FailsWith(r, address)
                   ELSE IF username # "ok" THEN FailsWith(r, username)
                   ELSE req'[r].pc = "s_next"]_vars

\* a signup whose address and username are both invalid has failed with the
\* error of the address
C24_Witness ==
    \E r \in Slots :
        /\ req[r].method = "signup" /\ req[r].pc = "done"
        /\ req[r].response.message = "Invalid ethereum address"
        /\ validateUsername(req[r].username) # "ok"

\* C25: a createCredential call that finds the persona of the platform account
\* in the store and the wallet already linked to that same persona is not
\* rejected with the 'does not belong to you' error.
C25_ReverificationUpdates ==
    \A c \in Calls :
        call[c].op = "verifyUser" /\ call[c].again /\ call[c].pc = "done" =>
            call[c].response #
                Failure(Thrown("UnprocessableEntity", AlreadyClaimed(call[c].platform)))

\* the login in slot r has promises of its own that are not settled yet
Unsettled(q) == \E k \in DOMAIN q.task : q.task[k] = "pending"

\* every promise of the login has been fulfilled
AllFulfilled(q) == q.task.nonce = "done" /\ q.task.demote = "done" /\ q.task.promote = "done"

\* C26: in the step that completes the last post-login side effect of a login
\* with wallet W of user U, none of them having failed, W is a primary wallet
\* of U, whichever of the demote-all and the promote-by-type update was
\* applied first.
C26_LoginWalletPrimary ==
    [][\A r \in Slots :
          LoggedIn(req[r]) /\ Unsettled(req[r]) /\ AllFulfilled(req'[r]) =>
              /\ req[r].address \in DOMAIN wallets'
              /\ wallets'[req[r].address].userId = req[r].userId
              /\ wallets'[req[r].address].primary]_vars

\* C27: a step that applies a side effect of a login of user U leaves the
\* nonce of every other user and the primary flag of every wallet of another
\* user as they were.
C27_LoginChangesOnlyOwnRecords ==
    [][\A r \in Slots :
          LoggedIn(req[r]) /\ req'[r].task # req[r].task =>
              /\ \A u \in DOMAIN users :
                   u # req[r].userId => u \in DOMAIN users' /\ users'[u].nonce = users[u].nonce
              /\ \A w \in DOMAIN wallets :
                   wallets[w].userId # req[r].userId =>
                       w \in DOMAIN wallets' /\ wallets'[w].primary = wallets[w].primary]_vars

\* C28: every transfer that a fund sweep has submitted has a strictly positive
\* amount: none is submitted for a post whose balance is positive but not
\* greater than the fee of 125000147.
C28_PositiveAmounts ==
    \A c \in Calls :
        \A n \in DOMAIN call[c].log :
            call[c].log[n].sent =>
                /\ call[c].log[n].amount > 0
                /\ call[c].log[n].balance > gasFee

=============================================================================
